---- MODULE Spec2Model ----
(***************************************************************************)
(* Model of src/src/panic_message_checking.rs: the function `assert`, that *)
(* runs a closure under catch_unwind with a process-wide panic hook that   *)
(* hands the panic text back through a per-call relay (atom_msg, atom_flg) *)
(* and serialises the hook between concurrent callers with the spin lock   *)
(* HOOK_GUARD.                                                             *)
(*                                                                         *)
(* A text is a sequence of characters.  Every thread calls `assert` once;  *)
(* a thread calling twice behaves as two threads of which the second calls *)
(* after the first is done.  A failed compare_exchange and a failed load of*)
(* the readiness flag change nothing (hint::spin_loop), so a spinning      *)
(* thread is a thread whose next step is not enabled yet.                  *)
(***************************************************************************)
EXTENDS Integers, Sequences, FiniteSets, TLC

\* number of threads that call `assert`
NumThreads == 2
\* longest closure message / expected text of the single-caller specification
MaxLen == 2

Threads == 1..NumThreads
\* a thread of the same process that never calls `assert` and panics
Outsider == NumThreads + 1
Procs == Threads \cup {Outsider}

\* characters of texts: "p" and ":" also occur in the location prefix that
\* PanicInfo's Display puts before the message, "a" does not
Char == {"p", ":", "a"}

Strings(n) == UNION {[1..k -> Char] : k \in 0..n}

\* "panicked at <file>:<line>:<col>:\n"
PanicPrefix == <<"p", ":">>

\* pi.to_string()
PanicInfo_to_string(m) == PanicPrefix \o m

\* == in place of str::contains
ContainsAsEq(s, sub) == s = sub

\* str::contains
Contains(s, sub) ==
    \E i \in 0..(Len(s) - Len(sub)) : SubSeq(s, i + 1, i + Len(sub)) = sub

\* the message of the assert! of line 71
NoPanicDiag == <<"FnOnce provided did not panic at all.">>

\* the diagnostic without its last argument
MismatchDiagNoExp(m, e) ==
    <<"MISMATCH - expected message not contained MSG: ">> \o m \o <<" EXP:">>

\* the message of the assert! of lines 83-88
MismatchDiag(m, e) ==
    <<"MISMATCH - expected message not contained MSG: ">> \o m \o <<" EXP:">> \o e

\* the closures under test: one that returns, one that panics with a message,
\* one that unwinds by std::panic::resume_unwind (which invokes no hook), one
\* that never terminates, one that calls `assert` itself
Returns == [kind |-> "returns", msg |-> <<>>]
ResumeUnwind == [kind |-> "resume_unwind", msg |-> <<>>]
Panics(m) == [kind |-> "panics", msg |-> m]
Loops == [kind |-> "loops", msg |-> <<>>]
CallsAssert == [kind |-> "calls_assert", msg |-> <<>>]

ConcCallbacks == {Returns, ResumeUnwind, Loops, CallsAssert,
                  Panics(<<"a">>), Panics(<<"p">>)}
ConcExps == {<<"a">>, <<"p">>}
SeqCallbacks == {Returns, ResumeUnwind, Loops, CallsAssert} \cup {Panics(m) : m \in Strings(MaxLen)}
SeqExps == Strings(MaxLen)

NoCallback == [kind |-> "none", msg |-> <<>>]

\* the panic message of a thread outside `assert`
OutsiderMsg == <<"a">>

\* NonNull::dangling()
Dangling == <<>>

\* the hook std installs when none is set, and the closure of lines 58-64
\* bound to the relay of thread t
DefaultHook == <<>>

\* set_hook left out: the default hook stays
CustomHookUnset(t) == DefaultHook

CustomHook(t) == <<t>>

\* what a read through a pointer that holds no value may yield
UBValues == {<<>>, <<"a">>}

VARIABLES
    HOOK_GUARD,   \* the static AtomicBool: TRUE is free, FALSE is held
    hook,         \* the process-wide panic hook
    pc,           \* where each thread is
    f,            \* the closure of each call
    exp_msg,      \* the expected text of each call
    atom_msg,     \* the relay's pointer
    atom_flg,     \* the relay's readiness flag
    res,          \* the result of catch_unwind
    msg,          \* the text the call read through the pointer
    heap,         \* the boxes each thread's hook invocations allocated
    target,       \* the relay the hook a thread is running is bound to
    pmsg,         \* the text the hook a thread is running publishes
    cont,         \* where a thread goes on when the hook it runs returns
    outcome,      \* how the call ended
    diag,         \* the message of the panic `assert` raised
    ub,           \* the call read through a pointer that holds no value
    prevHook,     \* the hook that the call's set_hook replaced
    handledBy,    \* the hook that handled the last panic of each thread
    writes,       \* stores to each relay's pointer
    reads         \* reads through each relay's pointer

vars == <<HOOK_GUARD, hook, pc, f, exp_msg, atom_msg, atom_flg, res, msg, heap,
          target, pmsg, cont, outcome, diag, ub, prevHook, handledBy, writes, reads>>

relayVars == <<atom_msg, atom_flg, writes>>
callVars == <<f, exp_msg>>
hookRunVars == <<target, pmsg, cont>>

Init ==
    /\ HOOK_GUARD = TRUE
    /\ hook = DefaultHook
    /\ pc = [p \in Procs |-> IF p = Outsider THEN "outside" ELSE "idle"]
    /\ f = [t \in Threads |-> NoCallback]
    /\ exp_msg = [t \in Threads |-> <<>>]
    /\ atom_msg = [t \in Threads |-> Dangling]
    /\ atom_flg = [t \in Threads |-> FALSE]
    /\ res = [t \in Threads |-> "none"]
    /\ msg = [t \in Threads |-> <<>>]
    /\ heap = [p \in Procs |-> <<>>]
    /\ target = [p \in Procs |-> 0]
    /\ pmsg = [p \in Procs |-> <<>>]
    /\ cont = [p \in Procs |-> "none"]
    /\ outcome = [t \in Threads |-> "none"]
    /\ diag = [t \in Threads |-> <<>>]
    /\ ub = [t \in Threads |-> FALSE]
    /\ prevHook = [t \in Threads |-> DefaultHook]
    /\ handledBy = [p \in Procs |-> "none"]
    /\ writes = [t \in Threads |-> 0]
    /\ reads = [t \in Threads |-> 0]

\* the threads that run the hook, holding the read lock of std's hook slot
HookUsers == {p \in Procs : pc[p] \in {"hook_store_ptr", "hook_store_flag"}}

\* a panic of thread p with message m: the runtime calls the hook that is set,
\* then goes on at k (the catch_unwind boundary, or the unwinding of the frame)
Panic(p, m, k) ==
    /\ handledBy' = [handledBy EXCEPT ![p] = hook]
    /\ IF hook = DefaultHook
       THEN /\ pc' = [pc EXCEPT ![p] = k]
            /\ UNCHANGED hookRunVars
       ELSE /\ pc' = [pc EXCEPT ![p] = "hook_store_ptr"]
            /\ target' = [target EXCEPT ![p] = hook[1]]
            /\ pmsg' = [pmsg EXCEPT ![p] = PanicInfo_to_string(m)]
            /\ cont' = [cont EXCEPT ![p] = k]

\* lines 33-38: the call begins with a fresh relay
CallWith(t, F, E) ==
    /\ pc[t] = "idle"
    /\ \E c \in F, e \in E :
         /\ f' = [f EXCEPT ![t] = c]
         /\ exp_msg' = [exp_msg EXCEPT ![t] = e]
    /\ atom_msg' = [atom_msg EXCEPT ![t] = Dangling]
    /\ atom_flg' = [atom_flg EXCEPT ![t] = FALSE]
    /\ pc' = [pc EXCEPT ![t] = "acquire"]
    /\ UNCHANGED <<HOOK_GUARD, hook, res, msg, heap, hookRunVars, outcome, diag,
                   ub, prevHook, handledBy, writes, reads>>

Call(t) == CallWith(t, ConcCallbacks, ConcExps)

CallSeq(t) == CallWith(t, SeqCallbacks, SeqExps)

\* a plain swap in place of the compare-and-swap: it succeeds whatever it finds
compare_exchange_always_ok(current, expected) == TRUE

\* compare_exchange(expected, _).is_ok()
compare_exchange_ok(current, expected) == current = expected

\* a compare_exchange(true, true): the guard is found free and left free
held_left_free == TRUE

\* the value the successful compare_exchange stores
held == FALSE

\* lines 45-56: the iteration of the spin loop whose compare_exchange succeeds,
\* in a call from a test or in a call from the closure of the thread's own call
Acquire(t) ==
    /\ pc[t] \in {"acquire", "inner_acquire"}
    /\ compare_exchange_ok(HOOK_GUARD, TRUE)
    /\ HOOK_GUARD' = held
    /\ pc' = [pc EXCEPT ![t] = "set_hook"]
    /\ UNCHANGED <<hook, callVars, relayVars, res, msg, heap, hookRunVars, outcome,
                   diag, ub, prevHook, handledBy, reads>>

\* lines 58-64: set_hook takes the write lock of the hook slot
SetHook(t) ==
    /\ pc[t] = "set_hook"
    /\ HookUsers = {}
    /\ prevHook' = [prevHook EXCEPT ![t] = hook]
    /\ hook' = CustomHook(t)
    /\ pc' = [pc EXCEPT ![t] = "callback"]
    /\ UNCHANGED <<HOOK_GUARD, callVars, relayVars, res, msg, heap, hookRunVars,
                   outcome, diag, ub, handledBy, reads>>

\* lines 66-68: catch_unwind(|| f()), for a closure that returns or unwinds
Callback(t) ==
    /\ pc[t] = "callback"
    /\ f[t].kind \in {"returns", "resume_unwind", "panics"}
    /\ IF f[t].kind = "panics"
       THEN /\ res' = [res EXCEPT ![t] = "Err"]
            /\ Panic(t, f[t].msg, "take_hook")
       ELSE /\ res' = [res EXCEPT ![t] = IF f[t].kind = "returns" THEN "Ok" ELSE "Err"]
            /\ pc' = [pc EXCEPT ![t] = "take_hook"]
            /\ UNCHANGED <<hookRunVars, handledBy>>
    /\ UNCHANGED <<HOOK_GUARD, hook, callVars, relayVars, msg, heap, outcome, diag,
                   ub, prevHook, reads>>

\* lines 66-68 and 33-50: the closure calls `assert` on its own thread; the
\* inner call enters the spin loop of lines 45-50 while the outer call holds
\* the guard and has its hook set.  (A closure that never terminates takes
\* no step at all.)
CallbackCallsAssert(t) ==
    /\ pc[t] = "callback"
    /\ f[t].kind = "calls_assert"
    /\ pc' = [pc EXCEPT ![t] = "inner_acquire"]
    /\ UNCHANGED <<HOOK_GUARD, hook, callVars, relayVars, res, msg, heap,
                   hookRunVars, outcome, diag, ub, prevHook, handledBy, reads>>

\* the store of line 62 left out: the box is made, the relay keeps its pointer
HookStorePtrOmitted(p) ==
    /\ pc[p] = "hook_store_ptr"
    /\ heap' = [heap EXCEPT ![p] = Append(@, [val |-> pmsg[p], reads |-> 0, freed |-> FALSE])]
    /\ pc' = [pc EXCEPT ![p] = "hook_store_flag"]
    /\ UNCHANGED <<HOOK_GUARD, hook, callVars, relayVars, res, msg, hookRunVars,
                   outcome, diag, ub, prevHook, handledBy, reads>>

\* lines 59-62: the hook boxes the text and stores the pointer in its relay
HookStorePtr(p) ==
    /\ pc[p] = "hook_store_ptr"
    /\ heap' = [heap EXCEPT ![p] = Append(@, [val |-> pmsg[p], reads |-> 0, freed |-> FALSE])]
    /\ atom_msg' = [atom_msg EXCEPT ![target[p]] = <<p, Len(heap[p]) + 1>>]
    /\ writes' = [writes EXCEPT ![target[p]] = @ + 1]
    /\ pc' = [pc EXCEPT ![p] = "hook_store_flag"]
    /\ UNCHANGED <<HOOK_GUARD, hook, callVars, atom_flg, res, msg, hookRunVars,
                   outcome, diag, ub, prevHook, handledBy, reads>>

\* line 63: the hook sets the flag and returns
HookStoreFlag(p) ==
    /\ pc[p] = "hook_store_flag"
    /\ atom_flg' = [atom_flg EXCEPT ![target[p]] = TRUE]
    /\ pc' = [pc EXCEPT ![p] = cont[p]]
    /\ target' = [target EXCEPT ![p] = 0]
    /\ pmsg' = [pmsg EXCEPT ![p] = <<>>]
    /\ cont' = [cont EXCEPT ![p] = "none"]
    /\ UNCHANGED <<HOOK_GUARD, hook, callVars, atom_msg, writes, res, msg, heap,
                   outcome, diag, ub, prevHook, handledBy, reads>>

\* the hook is read but never taken out
take_hook_leaves_custom(h) == h

\* the hook that take_hook leaves set
take_hook_leaves(h) == DefaultHook

\* line 69: take_hook takes the write lock of the hook slot
TakeHook(t) ==
    /\ pc[t] = "take_hook"
    /\ HookUsers = {}
    /\ hook' = take_hook_leaves(hook)
    /\ pc' = [pc EXCEPT ![t] = "check_res"]
    /\ UNCHANGED <<HOOK_GUARD, callVars, relayVars, res, msg, heap, hookRunVars,
                   outcome, diag, ub, prevHook, handledBy, reads>>

\* res.is_ok() in place of res.is_err()
is_err_inverted(r) == r = "Ok"

\* the check of line 71 left out
is_err_unchecked(r) == TRUE

\* res.is_err()
is_err(r) == r = "Err"

\* line 71: assert!(res.is_err(), ...)
CheckRes(t) ==
    /\ pc[t] = "check_res"
    /\ IF is_err(res[t])
       THEN /\ pc' = [pc EXCEPT ![t] = "await"]
            /\ UNCHANGED <<hookRunVars, handledBy, outcome, diag>>
       ELSE /\ outcome' = [outcome EXCEPT ![t] = "no_panic"]
            /\ diag' = [diag EXCEPT ![t] = NoPanicDiag]
            /\ Panic(t, NoPanicDiag, "drop")
    /\ UNCHANGED <<HOOK_GUARD, hook, callVars, relayVars, res, msg, heap, ub,
                   prevHook, reads>>

\* the loop of lines 76-78 left out
flag_ready_unchecked(flg) == TRUE

\* the condition that ends the loop of lines 76-78
flag_ready(flg) == flg = TRUE

\* lines 76-78: the iteration of the spin loop that finds the flag set
AwaitReady(t) ==
    /\ pc[t] = "await"
    /\ flag_ready(atom_flg[t])
    /\ pc' = [pc EXCEPT ![t] = "load"]
    /\ UNCHANGED <<HOOK_GUARD, hook, callVars, relayVars, res, msg, heap,
                   hookRunVars, outcome, diag, ub, prevHook, handledBy, reads>>

\* the pointer holds a value that was not moved out yet
Readable(ptr) ==
    /\ ptr # Dangling
    /\ heap[ptr[1]][ptr[2]].reads = 0

\* lines 80-81: load the pointer, move the text out of the box
Load(t) ==
    /\ pc[t] = "load"
    /\ LET ptr == atom_msg[t] IN
         IF Readable(ptr)
         THEN /\ msg' = [msg EXCEPT ![t] = heap[ptr[1]][ptr[2]].val]
              /\ heap' = [heap EXCEPT ![ptr[1]][ptr[2]].reads = @ + 1]
              /\ UNCHANGED ub
         ELSE /\ \E v \in UBValues : msg' = [msg EXCEPT ![t] = v]
              /\ ub' = [ub EXCEPT ![t] = TRUE]
              /\ UNCHANGED heap
    /\ reads' = [reads EXCEPT ![t] = @ + 1]
    /\ pc' = [pc EXCEPT ![t] = "compare"]
    /\ UNCHANGED <<HOOK_GUARD, hook, callVars, relayVars, res, hookRunVars, outcome,
                   diag, prevHook, handledBy>>

\* lines 83-89: assert!(msg.contains(exp_msg), ...), or the normal return
Compare(t) ==
    /\ pc[t] = "compare"
    /\ IF Contains(msg[t], exp_msg[t])
       THEN /\ outcome' = [outcome EXCEPT ![t] = "pass"]
            /\ pc' = [pc EXCEPT ![t] = "drop"]
            /\ UNCHANGED <<hookRunVars, handledBy, diag>>
       ELSE /\ outcome' = [outcome EXCEPT ![t] = "mismatch"]
            /\ diag' = [diag EXCEPT ![t] = MismatchDiag(msg[t], exp_msg[t])]
            /\ Panic(t, MismatchDiag(msg[t], exp_msg[t]), "drop")
    /\ UNCHANGED <<HOOK_GUARD, hook, callVars, relayVars, res, msg, heap, ub,
                   prevHook, reads>>

\* a store at the end of `assert` in place of the Drop impl: an unwinding
\* call leaves without it
DropOnReturnOnly(t) ==
    /\ pc[t] = "drop"
    /\ HOOK_GUARD' = IF outcome[t] = "pass" THEN TRUE ELSE HOOK_GUARD
    /\ pc' = [pc EXCEPT ![t] = "done"]
    /\ UNCHANGED <<hook, callVars, relayVars, res, msg, heap, hookRunVars, outcome,
                   diag, ub, prevHook, handledBy, reads>>

\* lines 17-21: `lock` is dropped on return and on unwinding
Drop(t) ==
    /\ pc[t] = "drop"
    /\ HOOK_GUARD' = TRUE
    /\ pc' = [pc EXCEPT ![t] = "done"]
    /\ UNCHANGED <<hook, callVars, relayVars, res, msg, heap, hookRunVars, outcome,
                   diag, ub, prevHook, handledBy, reads>>

\* lines 27-32: a panic on a thread that is not in `assert`
OutsidePanic ==
    /\ pc[Outsider] = "outside"
    /\ Panic(Outsider, OutsiderMsg, "dead")
    /\ UNCHANGED <<HOOK_GUARD, hook, callVars, relayVars, res, msg, heap, outcome,
                   diag, ub, prevHook, reads>>

ThreadStep(t) ==
    \/ Acquire(t)
    \/ SetHook(t)
    \/ Callback(t)
    \/ CallbackCallsAssert(t)
    \/ HookStorePtr(t)
    \/ HookStoreFlag(t)
    \/ TakeHook(t)
    \/ CheckRes(t)
    \/ AwaitReady(t)
    \/ Load(t)
    \/ Compare(t)
    \/ Drop(t)

OutsiderStep ==
    \/ OutsidePanic
    \/ HookStorePtr(Outsider)
    \/ HookStoreFlag(Outsider)

\* every panic of the process is raised in a closure given to `assert`
Next == \E t \in Threads : Call(t) \/ ThreadStep(t)

Spec == Init /\ [][Next]_vars

\* a thread outside `assert` panics as well
NextOutside == Next \/ OutsiderStep

SpecOutside == Init /\ [][NextOutside]_vars

\* one caller, every closure and expected text up to MaxLen
NextSeq == CallSeq(1) \/ ThreadStep(1)

SpecSeq == Init /\ [][NextSeq]_vars

\* the scheduler lets every thread that can take a step take one
FairSpec == Spec /\ \A t \in Threads : WF_vars(Call(t) \/ ThreadStep(t))

(***************************************************************************)
(* The properties.                                                         *)
(***************************************************************************)

\* the positions between the successful compare_exchange and the release
HeldPcs == {"set_hook", "callback", "inner_acquire", "hook_store_ptr",
            "hook_store_flag", "take_hook", "check_res", "await", "load",
            "compare", "drop"}

Holders == {t \in Threads : pc[t] \in HeldPcs}

FailsWith(t) == f[t].kind = "panics"

\* the text s has the text sub as a contiguous part
Occurs(s, sub) ==
    \E a \in 1..(Len(s) + 1), b \in 0..Len(s) : SubSeq(s, a, b) = sub

\* C1: in every reachable state at most one call is between its successful
\* compare-and-swap on HOOK_GUARD and its release.
C1_MutualExclusion == Cardinality(Holders) <= 1

\* a call holds the guard while another call spins for it
C1_Witness ==
    \E t, u \in Threads : t # u /\ pc[t] \in HeldPcs /\ pc[u] = "acquire"

\* C2: a call whose closure panics with a message that contains its expected
\* text reads, whatever the other threads do, the text of its own panic and
\* never that of another call's different panic, and when it ends it has passed.
C2_NoCrossLeak ==
    \A t \in Threads :
        (FailsWith(t) /\ Occurs(f[t].msg, exp_msg[t])) =>
            /\ pc[t] \in {"compare", "drop", "done"} =>
                 /\ msg[t] = PanicInfo_to_string(f[t].msg)
                 /\ \A u \in Threads \ {t} :
                      (FailsWith(u) /\ f[u].msg # f[t].msg) =>
                          msg[t] # PanicInfo_to_string(f[u].msg)
            /\ pc[t] = "done" => outcome[t] = "pass"

\* two calls with different messages, each expecting its own: one has passed, the
\* other has read its own text
C2_Witness ==
    \E t, u \in Threads :
        /\ t # u
        /\ FailsWith(t) /\ FailsWith(u) /\ f[t].msg # f[u].msg
        /\ Occurs(f[t].msg, exp_msg[t]) /\ Occurs(f[u].msg, exp_msg[u])
        /\ pc[t] = "done" /\ outcome[t] = "pass"
        /\ pc[u] = "compare" /\ msg[u] = PanicInfo_to_string(f[u].msg)

\* C3: the guard is free whenever no call is past its acquire and before its
\* release, whichever way the calls that held it ended, and held otherwise.
C3_GuardReleased == (Holders = {}) <=> (HOOK_GUARD = TRUE)

\* a call has ended by the failure of line 71, another by the failure of
\* line 83, and the guard is free
C3_Witness ==
    \E t, u \in Threads :
        /\ pc[t] = "done" /\ outcome[t] = "no_panic"
        /\ pc[u] = "done" /\ outcome[u] = "mismatch"
        /\ HOOK_GUARD = TRUE

\* C4: a call whose closure panics with a message that contains the expected
\* text raises no failure, and ends as a pass.
C4_ContainedPasses ==
    \A t \in Threads :
        (FailsWith(t) /\ Occurs(f[t].msg, exp_msg[t])) =>
            /\ outcome[t] \in {"none", "pass"}
            /\ diag[t] = <<>>
            /\ pc[t] = "done" => outcome[t] = "pass"

\* a call has passed whose expected text is a proper part of the message
C4_Witness ==
    \E t \in Threads :
        /\ FailsWith(t) /\ Occurs(f[t].msg, exp_msg[t])
        /\ Len(exp_msg[t]) >= 1 /\ Len(f[t].msg) > Len(exp_msg[t])
        /\ pc[t] = "done" /\ outcome[t] = "pass"

\* C5, as the claim states it: a call whose closure panics with a message that
\* does not contain the expected text ends with the MISMATCH diagnostic, which
\* holds the message and the expected text.
C5_Original ==
    \A t \in Threads :
        (FailsWith(t) /\ ~Occurs(f[t].msg, exp_msg[t]) /\ pc[t] = "done") =>
            /\ outcome[t] = "mismatch"
            /\ Occurs(diag[t], f[t].msg)
            /\ Occurs(diag[t], exp_msg[t])

\* C5, amended: a call whose closure panics ends with the MISMATCH diagnostic
\* when the text of the panic as the hook formats it (the location prefix, then
\* the message) does not contain the expected text; the diagnostic holds that
\* text, hence the message, and the expected text.
C5_MismatchOnCaptured ==
    \A t \in Threads :
        (FailsWith(t) /\ ~Occurs(PanicInfo_to_string(f[t].msg), exp_msg[t])
            /\ pc[t] \in {"drop", "done"}) =>
            /\ outcome[t] = "mismatch"
            /\ Occurs(diag[t], PanicInfo_to_string(f[t].msg))
            /\ Occurs(diag[t], f[t].msg)
            /\ Occurs(diag[t], exp_msg[t])

\* a call has ended by the failure of line 83
C5_Witness ==
    \E t \in Threads :
        /\ FailsWith(t) /\ Len(f[t].msg) >= 1 /\ Len(exp_msg[t]) >= 1
        /\ ~Occurs(PanicInfo_to_string(f[t].msg), exp_msg[t])
        /\ pc[t] = "done" /\ outcome[t] = "mismatch"

\* C6: a call whose closure returns fails, once past line 71, with the fixed
\* diagnostic of that line, which is no MISMATCH diagnostic, without having
\* read any text to compare with the expected one.
C6_NoPanicFails ==
    \A t \in Threads :
        (f[t].kind = "returns" /\ pc[t] \notin {"idle", "acquire", "set_hook",
                                                "callback", "take_hook", "check_res"}) =>
            /\ outcome[t] = "no_panic"
            /\ diag[t] = NoPanicDiag
            /\ diag[t] # MismatchDiag(msg[t], exp_msg[t])
            /\ reads[t] = 0

\* a call whose closure returns has ended, its expected text of the greatest length
C6_Witness ==
    \E t \in Threads :
        /\ f[t].kind = "returns" /\ Len(exp_msg[t]) = MaxLen
        /\ pc[t] = "done" /\ outcome[t] = "no_panic"

\* C7: the step that ends a call leaves the hook that the call's set_hook had
\* replaced, the default hook; and a panic raised outside `assert` while no
\* call holds the guard is handled by the default hook and stores into no relay.
C7_HookRestored ==
    [][/\ \A t \in Threads :
            (pc[t] # "done" /\ pc'[t] = "done") =>
                (hook' = prevHook[t] /\ hook' = DefaultHook)
       /\ (pc[Outsider] = "outside" /\ pc'[Outsider] # "outside" /\ HOOK_GUARD = TRUE) =>
            /\ handledBy'[Outsider] = DefaultHook
            /\ pc'[Outsider] = "dead"
            /\ relayVars' = relayVars]_vars

\* a call has ended and a panic outside `assert` was handled by the default hook
C7_Witness ==
    /\ \E t \in Threads : pc[t] = "done"
    /\ \A t \in Threads : pc[t] \in {"idle", "done"}
    /\ pc[Outsider] = "dead"
    /\ handledBy[Outsider] = DefaultHook

\* every closure given to `assert` so far terminates
ClosuresTerminate == \A t \in Threads : f[t].kind \notin {"loops", "calls_assert"}

\* C8, as the claim states it: if every closure terminates, every call that
\* spins for the guard ends.
C8_Original ==
    ([]ClosuresTerminate) => \A t \in Threads : (pc[t] = "acquire") ~> (pc[t] = "done")

\* C9: a call is at the readiness loop or at the read of the payload, or has
\* read it, only if catch_unwind reported a failure; a call whose closure
\* returned never is.
C9_AwaitOnlyAfterFailure ==
    \A t \in Threads :
        (pc[t] \in {"await", "load", "compare"} \/ reads[t] > 0) =>
            (res[t] = "Err" /\ f[t].kind # "returns")

\* a call whose closure returned has ended, another call is at the readiness loop
C9_Witness ==
    \E t, u \in Threads :
        /\ f[t].kind = "returns" /\ pc[t] = "done" /\ reads[t] = 0
        /\ pc[u] = "await"

InstalledPcs == {"callback", "inner_acquire", "hook_store_ptr", "hook_store_flag",
                 "take_hook"}

\* the box a pointer points to
Box(ptr) == heap[ptr[1]][ptr[2]]

\* C11: while a call is between its set_hook and its take_hook, a panic of the
\* thread outside `assert` is handled by that call's hook and not by the default
\* one: the hook stores a pointer to the text of that panic into the call's
\* relay, then sets the relay's flag, the call still being there.
C11_OutsidePanicCaptured ==
    [][\A t \in Threads :
         /\ (pc[t] \in InstalledPcs /\ pc[Outsider] = "outside"
                /\ pc'[Outsider] # "outside") =>
              /\ handledBy'[Outsider] = CustomHook(t)
              /\ pc'[Outsider] = "hook_store_ptr"
              /\ target'[Outsider] = t
         /\ (target[Outsider] = t /\ pc[Outsider] = "hook_store_ptr"
                /\ pc'[Outsider] # "hook_store_ptr") =>
              /\ pc[t] \in InstalledPcs
              /\ atom_msg'[t] = <<Outsider, Len(heap'[Outsider])>>
              /\ heap'[Outsider][Len(heap'[Outsider])].val = PanicInfo_to_string(OutsiderMsg)
         /\ (target[Outsider] = t /\ pc[Outsider] = "hook_store_flag"
                /\ pc'[Outsider] # "hook_store_flag") =>
              /\ pc[t] \in InstalledPcs
              /\ atom_flg'[t] = TRUE
              /\ pc'[Outsider] = "dead"]_vars

\* the outside thread's panic was published into the relay of a call
C11_Witness ==
    /\ pc[Outsider] = "dead"
    /\ \E t \in Threads :
         /\ handledBy[Outsider] = CustomHook(t)
         /\ atom_flg[t] = TRUE
         /\ atom_msg[t] # Dangling
         /\ atom_msg[t][1] = Outsider

\* C12, as the claim states it: when a call has ended, every box its hook
\* allocated was read and freed, the guard is not held by it and its hook is
\* not set.
C12_Original ==
    \A t \in Threads :
        pc[t] = "done" =>
            /\ \A i \in 1..Len(heap[t]) : heap[t][i].reads = 1 /\ heap[t][i].freed
            /\ t \notin Holders
            /\ hook # CustomHook(t)

\* C13: whenever a custom hook is set, the call it is bound to is between its
\* set_hook and its take_hook and the guard is held; the hook changes only by a
\* set_hook that replaces the default hook and by the take_hook of the call
\* whose hook is set.
C13_HookUnderGuard ==
    /\ [](hook # DefaultHook =>
            /\ hook[1] \in Threads
            /\ pc[hook[1]] \in InstalledPcs
            /\ hook[1] \in Holders
            /\ HOOK_GUARD = FALSE)
    /\ [][hook' # hook =>
            \E t \in Threads :
                \/ /\ pc[t] = "set_hook" /\ pc'[t] = "callback"
                   /\ HOOK_GUARD = FALSE
                   /\ hook = DefaultHook /\ hook' = CustomHook(t)
                \/ /\ pc[t] = "take_hook" /\ pc'[t] = "check_res"
                   /\ HOOK_GUARD = FALSE
                   /\ hook = CustomHook(t) /\ hook' = DefaultHook]_vars

\* the hook of a call is set while another call spins for the guard
C13_Witness ==
    \E t, u \in Threads :
        t # u /\ hook = CustomHook(t) /\ pc[t] = "callback" /\ pc[u] = "acquire"

\* C14: the step in which `assert` raises its own failure (line 71 or line 83)
\* is taken with the default hook set and the guard held by the call; the
\* default hook handles the panic, nothing is stored into a relay and no box
\* is made.
C14_OwnFailuresNotCaptured ==
    [][\A t \in Threads :
         (outcome[t] = "none" /\ outcome'[t] \in {"no_panic", "mismatch"}) =>
            /\ hook = DefaultHook
            /\ HOOK_GUARD = FALSE
            /\ t \in Holders
            /\ handledBy'[t] = DefaultHook
            /\ pc'[t] = "drop"
            /\ relayVars' = relayVars
            /\ heap' = heap]_vars

\* a call has raised the failure of line 83 while another call spins for the guard
C14_Witness ==
    \E t, u \in Threads :
        /\ t # u
        /\ outcome[t] = "mismatch" /\ pc[t] = "drop" /\ handledBy[t] = DefaultHook
        /\ pc[u] = "acquire"

\* C15: a relay whose flag is set holds a pointer to a box with a published
\* text, the call's own panic or the outside thread's, never the dangling
\* placeholder; what a call reads after it has seen the flag is that text.
C15_PublishBeforeConsume ==
    \A t \in Threads :
        /\ atom_flg[t] =>
             /\ atom_msg[t] # Dangling
             /\ Box(atom_msg[t]).val \in {PanicInfo_to_string(f[t].msg),
                                          PanicInfo_to_string(OutsiderMsg)}
        /\ pc[t] = "load" => atom_flg[t]
        /\ reads[t] > 0 => (~ub[t] /\ msg[t] = Box(atom_msg[t]).val)

\* a call has read the text that the hook published while running on another thread
C15_Witness ==
    \E t \in Threads :
        /\ pc[t] = "compare" /\ reads[t] = 1
        /\ atom_msg[t] # Dangling /\ atom_msg[t][1] = Outsider
        /\ msg[t] = PanicInfo_to_string(OutsiderMsg)

\* C16, as the claim states it: whenever catch_unwind has reported a failure,
\* the call's relay holds a pointer to the message and its flag is set.
C16_Original ==
    \A t \in Threads :
        (res[t] = "Err" /\ pc[t] \in {"take_hook", "check_res", "await"}) =>
            (atom_flg[t] = TRUE /\ atom_msg[t] # Dangling)

\* the outcome that a closure and an expected text determine
OutcomeOf(c, e) ==
    IF c.kind = "returns" THEN "no_panic"
    ELSE IF Occurs(PanicInfo_to_string(c.msg), e) THEN "pass" ELSE "mismatch"

\* C17, as the claim states it (for closures that terminate): every call whose
\* closure returns or panics ends, with the outcome its own closure and expected
\* text determine, whatever the other calls are and however they interleave.
C17_Original ==
    ([]ClosuresTerminate) =>
        \A t \in Threads :
            (pc[t] = "acquire" /\ f[t].kind \in {"returns", "panics"}) ~>
                (pc[t] = "done" /\ outcome[t] = OutcomeOf(f[t], exp_msg[t]))

\* the call of thread t runs a closure that never terminates
Stuck(t) == f[t].kind = "loops" /\ pc[t] = "callback"

\* C18: a call whose closure never terminates holds the guard with its hook set
\* and has no outcome; it stays so in every step, and in every step every other
\* thread that is in `assert` stays in the loop of lines 45-50 and none gets
\* past it.
C18_NoTimeout ==
    /\ [](\A t \in Threads :
            Stuck(t) => (HOOK_GUARD = FALSE /\ hook = CustomHook(t) /\ outcome[t] = "none"))
    /\ [][\A t \in Threads :
            Stuck(t) =>
                /\ Stuck(t)'
                /\ \A u \in Threads \ {t} :
                     /\ pc[u] = "acquire" => pc'[u] = "acquire"
                     /\ pc'[u] \in {"idle", "acquire", "done"}]_vars

\* a closure runs forever while another call spins for the guard
C18_Witness ==
    \E t, u \in Threads : t # u /\ Stuck(t) /\ pc[u] = "acquire"

\* C19: a call made by the closure of the thread's own call finds the guard
\* held, and stays in the loop of lines 45-50 in every step; the outer call has
\* no outcome.
C19_NotReentrant ==
    /\ [](\A t \in Threads :
            pc[t] = "inner_acquire" =>
                (HOOK_GUARD = FALSE /\ f[t].kind = "calls_assert" /\ outcome[t] = "none"))
    /\ [][\A t \in Threads :
            pc[t] = "inner_acquire" => pc'[t] = "inner_acquire"]_vars

\* the closure of a call has called `assert`
C19_Witness ==
    \E t \in Threads : pc[t] = "inner_acquire" /\ hook = CustomHook(t)

====
